---- MODULE Spec2Model ----
(***************************************************************************)
(* A model of the relay of realtime-cli.                                   *)
(*                                                                         *)
(*   SpecSession  the upstream session, class RealtimeRelay of             *)
(*                realtime_relay_modal_app.py: its socket, health flag,    *)
(*                reconnect ladder and outbound queue, driven by the three *)
(*                coroutines that touch it (the endpoint, _health_check    *)
(*                and _process_queue).                                     *)
(*   SpecFront    one client connection handled by websocket_endpoint      *)
(*                (realtime_relay_modal_app.py) or by handle_client        *)
(*                (relay_server.py).                                       *)
(*   SpecPool     class ConnectionPool.                                    *)
(*   SpecLimit    class RateLimiter.                                       *)
(*   SpecMint     the function create_ephemeral_token.                     *)
(*   SpecCli      handle_server_events of the clients cli.py and           *)
(*                cli_v0.0.py: the response state and response id.         *)
(*   SpecAuth     AuthMiddleware.authenticate (auth/middleware.py) and     *)
(*                login (realtime_relay_modal_app.py).                     *)
(*   SpecMon      the process-wide state of realtime_relay_modal_app.py:   *)
(*                the connections gauge and the usage counters, with       *)
(*                several connections in websocket_endpoint.               *)
(*   SpecFrontLive is SpecFront with fairness of the handler's own steps.  *)
(*                                                                         *)
(* asyncio runs one coroutine at a time and switches only at an await that *)
(* really suspends, so an action is the code between two such awaits.      *)
(***************************************************************************)
EXTENDS Integers, Sequences, FiniteSets, TLC

(***************************************************************************)
(* Bounds of the model.                                                    *)
(***************************************************************************)
MaxEvents == 3
MaxSockets == 2

(***************************************************************************)
(* Program constants.                                                      *)
(***************************************************************************)
max_reconnect_attempts == 3
BackoffCap == 30

None == 0

VARIABLES
    \* ---- RealtimeRelay (realtime_relay_modal_app.py) ----
    upstream_ws,         \* self.upstream_ws: None or the id of a socket
    healthy,             \* self.healthy
    reconnect_attempts,  \* self.reconnect_attempts
    message_queue,       \* self.message_queue, oldest first
    sockOpen,            \* the upstream sockets that are open
    nextSock,            \* how many upstream sockets have been opened
    pc,                  \* where each coroutine of the session stands
    message,             \* _process_queue's local `message` while it sends
    sendSock,            \* the socket that send was called on
    pingSock,            \* the socket that ping was called on
    backoff,             \* the seconds each coroutine sleeps before its dial
    attemptNo,           \* the number of the attempt each coroutine is making
    \* ---- history of the session, for the properties ----
    nextEvent,           \* events are numbered in the order they are enqueued
    sent,                \* the events upstream has received, in order
    enqUnhealthy,        \* the events enqueued while the session was unhealthy
    exhausted,           \* "Max reconnection attempts reached" was logged
    \* ---- one client connection and its handler ----
    server,              \* which handler serves it: "modal" or "local"
    fpc,                 \* where the handler stands
    closeCode,           \* the code the handler closed the client socket with
    toClient,            \* what the handler has sent to the client, in order
    frames,              \* how many client frames the handler has read
    firstFrame,          \* the kind of the first frame it read
    minted,              \* how many ephemeral tokens were minted
    relays,              \* the upstream socket of each RealtimeRelay created
    forwarded,           \* how many client frames were sent upstream
    credentials,         \* what the client presented when it connected
    principalEvents,     \* client events of the principal in the current window
    lastSent,            \* the last client event sent upstream
    stamped,             \* the 6-hex values the relay stamped on this connection
    initTimer,           \* whether 5 s passed after accept with no frame
    mintAttempts,        \* how many times create_ephemeral_token was called
    lastFrame,           \* the kind of the last client frame read
    upPump,              \* relay_upstream_to_local: "off", "running" or "ended"
    lastRecv,            \* <<>> or the last client event a pump read
    fromUp,              \* the numbers of the upstream events sent to the client
    upEvents,            \* how many upstream frames the pump has taken
    lastUp,              \* the kind of the last upstream frame taken
    \* ---- ConnectionPool ----
    max_size,            \* self.max_size
    pool,                \* self.pool
    pool_queue,          \* self.queue, oldest first
    created,             \* how many times _create_relay was called
    holder,              \* what each caller of the pool is doing
    held,                \* the relay acquire returned to each caller
    factory,             \* which _create_relay the pool has: "stub" or "fresh"
    unhealthy,           \* the sessions that are not Healthy
    releasedUnhealthy,   \* the sessions released while not Healthy
    \* ---- RateLimiter ----
    clients,             \* self.clients: client id -> RateLimit
    now,                 \* datetime.now().timestamp(), in seconds
    windows,             \* per client, its current window and the checks in it
    lastCheck,           \* the last check made: client, place in window, result
    alone,               \* each client's record in a run with its checks only
    \* ---- create_ephemeral_token ----
    session_config,      \* the argument: a function from its keys to its values
    apiKeySet,           \* whether OPENAI_API_KEY is set
    mintState,           \* "called", "posted", "minted" or "failed"
    payload,             \* the JSON body posted to the sessions endpoint
    \* ---- handle_server_events of the command-line client ----
    cli,                 \* which client runs: "cli" (cli.py) or "cli_v0"
    response_state,      \* STATE.response_state
    current_response_id, \* STATE.current_response_id
    lastEvent,           \* the last server event taken
    eventsSeen,          \* how many server events were taken
    actedCount,          \* how many deltas were put out (text, audio)
    errorsPrinted,       \* how many times "Error handling event" was printed
    cancels,             \* the response ids of the response.cancel events sent
    \* ---- AuthMiddleware.authenticate ----
    users,               \* the user store: api key -> "none", "active", "disabled"
    presented,           \* what each caller presents: <<>> or <<api key>>
    authResult,          \* what each caller got: <<>> before the call
    \* ---- the process-wide state of realtime_relay_modal_app.py ----
    conns,               \* each client connection's place in websocket_endpoint
    websocket_connections, \* monitor.metrics['websocket_connections']
    active_connections,  \* manager.active_connections
    token_usage,         \* the usage counters: input, output, total
    usage_records,       \* the usage records written by record_usage
    delivered,           \* the usage of the response.done events sent on
    lastDone             \* <<>> or the usage of the response.done sent on last

sessVars == <<upstream_ws, healthy, reconnect_attempts, message_queue, sockOpen,
              nextSock, pc, message, sendSock, pingSock, backoff, attemptNo,
              nextEvent, sent, enqUnhealthy, exhausted>>

frontVars == <<server, fpc, closeCode, toClient, frames, firstFrame, minted,
               relays, forwarded, credentials, principalEvents, lastSent,
               stamped, initTimer, mintAttempts, lastFrame, upPump, upEvents,
               lastUp, lastRecv, fromUp>>

poolVars == <<max_size, pool, pool_queue, created, holder, held, factory,
              unhealthy, releasedUnhealthy>>

limitVars == <<clients, now, windows, lastCheck, alone>>

mintVars == <<session_config, apiKeySet, mintState, payload>>

cliVars == <<cli, response_state, current_response_id, lastEvent, eventsSeen,
             actedCount, errorsPrinted, cancels>>

authVars == <<users, presented, authResult>>

monVars == <<conns, websocket_connections, active_connections, token_usage,
             usage_records, delivered, lastDone>>

vars == <<sessVars, frontVars, poolVars, limitVars, mintVars, cliVars,
          authVars, monVars>>

\* The parts of the state a specification leaves alone hold these values.
FrontIdle ==
    /\ server = "modal"
    /\ fpc = "done"
    /\ closeCode = 0
    /\ toClient = <<>>
    /\ frames = 0
    /\ firstFrame = "none"
    /\ minted = 0
    /\ relays = <<>>
    /\ forwarded = 0
    /\ credentials = "valid"
    /\ principalEvents = 0
    /\ lastSent = <<>>
    /\ stamped = {}
    /\ initTimer = "running"
    /\ mintAttempts = 0
    /\ lastFrame = "none"
    /\ upPump = "off"
    /\ upEvents = 0
    /\ lastUp = "none"
    /\ lastRecv = <<>>
    /\ fromUp = <<>>

PoolIdle ==
    /\ max_size = 0
    /\ pool = {}
    /\ pool_queue = <<>>
    /\ created = 0
    /\ holder = <<>>
    /\ held = <<>>
    /\ factory = "stub"
    /\ unhealthy = {}
    /\ releasedUnhealthy = {}

LimitIdle ==
    /\ clients = <<>>
    /\ now = 0
    /\ windows = <<>>
    /\ lastCheck = <<>>
    /\ alone = <<>>

MintIdle ==
    /\ session_config = <<>>
    /\ apiKeySet = TRUE
    /\ mintState = "minted"
    /\ payload = <<>>

CliIdle ==
    /\ cli = "cli"
    /\ response_state = "idle"
    /\ current_response_id = None
    /\ lastEvent = <<>>
    /\ eventsSeen = 0
    /\ actedCount = 0
    /\ errorsPrinted = 0
    /\ cancels = <<>>

AuthIdle ==
    /\ users = <<>>
    /\ presented = <<>>
    /\ authResult = <<>>

MonIdle ==
    /\ conns = <<>>
    /\ websocket_connections = 0
    /\ active_connections = <<>>
    /\ token_usage = <<>>
    /\ usage_records = <<>>
    /\ delivered = <<>>
    /\ lastDone = <<>>

SessionIdle ==
    /\ upstream_ws = 0
    /\ healthy = FALSE
    /\ reconnect_attempts = 0
    /\ message_queue = <<>>
    /\ sockOpen = {}
    /\ nextSock = 0
    /\ pc = <<>>
    /\ message = 0
    /\ sendSock = 0
    /\ pingSock = 0
    /\ backoff = <<>>
    /\ attemptNo = <<>>
    /\ nextEvent = 1
    /\ sent = <<>>
    /\ enqUnhealthy = {}
    /\ exhausted = FALSE

Tasks == {"main", "hc", "pq"}

Min(a, b) == IF a < b THEN a ELSE b

\* Where a coroutine goes on when connect_upstream / _handle_reconnect returns.
Home(t) == CASE t = "main" -> "run"
             [] t = "hc"   -> "sleep"
             [] t = "pq"   -> "get"

(***************************************************************************)
(* RealtimeRelay.__init__ followed by the endpoint's call of               *)
(* connect_upstream, which has not dialled yet.                            *)
(***************************************************************************)
SessionInit ==
    /\ upstream_ws = None
    /\ healthy = TRUE
    /\ reconnect_attempts = 0
    /\ message_queue = <<>>
    /\ sockOpen = {}
    /\ nextSock = 0
    /\ pc = [t \in Tasks |-> CASE t = "main" -> "connect"
                               [] t = "hc"   -> "sleep"
                               [] t = "pq"   -> "get"]
    /\ message = None
    /\ sendSock = None
    /\ pingSock = None
    /\ backoff = [t \in Tasks |-> 0]
    /\ attemptNo = [t \in Tasks |-> 0]
    /\ nextEvent = 1
    /\ sent = <<>>
    /\ enqUnhealthy = {}
    /\ exhausted = FALSE
    /\ FrontIdle
    /\ PoolIdle
    /\ LimitIdle
    /\ MintIdle
    /\ CliIdle
    /\ AuthIdle
    /\ MonIdle

\* backoff = min(30, 2 ** self.reconnect_attempts)
Backoff(n) == Min(BackoffCap, 2 ^ n)

\* if self.reconnect_attempts < self.max_reconnect_attempts
CanReconnect_inclusive == reconnect_attempts <= max_reconnect_attempts
CanReconnect == reconnect_attempts < max_reconnect_attempts

(***************************************************************************)
(* _handle_reconnect up to its asyncio.sleep, run by coroutine t: either   *)
(* the next attempt is counted and t sleeps, or the ladder is exhausted,   *)
(* which is logged, and t returns to its caller.                           *)
(***************************************************************************)
handle_reconnect(t) ==
    IF CanReconnect
    THEN /\ reconnect_attempts' = reconnect_attempts + 1
         /\ backoff' = [backoff EXCEPT ![t] = Backoff(reconnect_attempts + 1)]
         /\ attemptNo' = [attemptNo EXCEPT ![t] = reconnect_attempts + 1]
         /\ pc' = [pc EXCEPT ![t] = "reconnect"]
         /\ exhausted' = exhausted
    ELSE /\ reconnect_attempts' = reconnect_attempts
         /\ backoff' = [backoff EXCEPT ![t] = 0]
         /\ attemptNo' = [attemptNo EXCEPT ![t] = 0]
         /\ pc' = [pc EXCEPT ![t] = Home(t)]
         /\ exhausted' = TRUE

(***************************************************************************)
(* connect_upstream, entered by the endpoint (pc "connect") or, after the  *)
(* sleep, by _handle_reconnect (pc "reconnect").  The dial succeeds or     *)
(* raises.  A success replaces self.upstream_ws and leaves the socket it   *)
(* replaces as it is.                                                      *)
(***************************************************************************)
DialOk(t) ==
    /\ pc[t] \in {"connect", "reconnect"}
    /\ nextSock < MaxSockets
    /\ nextSock' = nextSock + 1
    /\ sockOpen' = sockOpen \cup {nextSock + 1}
    /\ upstream_ws' = nextSock + 1
    /\ healthy' = TRUE
    /\ reconnect_attempts' = 0
    /\ pc' = [pc EXCEPT ![t] = Home(t)]
    /\ backoff' = [backoff EXCEPT ![t] = 0]
    /\ attemptNo' = [attemptNo EXCEPT ![t] = 0]
    /\ UNCHANGED <<message_queue, message, sendSock, pingSock, nextEvent, sent,
                   enqUnhealthy, exhausted>>
    /\ UNCHANGED <<frontVars, poolVars, limitVars, mintVars, cliVars,
                   authVars, monVars>>

DialFail(t) ==
    /\ pc[t] \in {"connect", "reconnect"}
    /\ healthy' = FALSE
    /\ handle_reconnect(t)
    /\ UNCHANGED <<upstream_ws, message_queue, sockOpen, nextSock, message,
                   sendSock, pingSock, nextEvent, sent, enqUnhealthy>>
    /\ UNCHANGED <<frontVars, poolVars, limitVars, mintVars, cliVars,
                   authVars, monVars>>

(***************************************************************************)
(* _health_check: after the 30 s sleep, ping when there is an open socket. *)
(***************************************************************************)
HealthCheckPing ==
    /\ pc["hc"] = "sleep"
    /\ upstream_ws # None
    /\ upstream_ws \in sockOpen
    /\ pingSock' = upstream_ws
    /\ pc' = [pc EXCEPT !["hc"] = "ping"]
    /\ UNCHANGED <<upstream_ws, healthy, reconnect_attempts, message_queue,
                   sockOpen, nextSock, message, sendSock, backoff, attemptNo,
                   nextEvent, sent, enqUnhealthy, exhausted>>
    /\ UNCHANGED <<frontVars, poolVars, limitVars, mintVars, cliVars,
                   authVars, monVars>>

\* the pong arrives within 10 s
HealthCheckPong ==
    /\ pc["hc"] = "ping"
    /\ pingSock \in sockOpen
    /\ healthy' = TRUE
    /\ pingSock' = None
    /\ pc' = [pc EXCEPT !["hc"] = "sleep"]
    /\ UNCHANGED <<upstream_ws, reconnect_attempts, message_queue, sockOpen,
                   nextSock, message, sendSock, backoff, attemptNo, nextEvent,
                   sent, enqUnhealthy, exhausted>>
    /\ UNCHANGED <<frontVars, poolVars, limitVars, mintVars, cliVars,
                   authVars, monVars>>

\* the wait for the pong times out, or the socket has closed: the bare except
HealthCheckFail ==
    /\ pc["hc"] = "ping"
    /\ healthy' = FALSE
    /\ pingSock' = None
    /\ handle_reconnect("hc")
    /\ UNCHANGED <<upstream_ws, message_queue, sockOpen, nextSock, message,
                   sendSock, nextEvent, sent, enqUnhealthy>>
    /\ UNCHANGED <<frontVars, poolVars, limitVars, mintVars, cliVars,
                   authVars, monVars>>

(***************************************************************************)
(* _process_queue.  get() and the test of healthy and upstream_ws run      *)
(* without suspension; a message taken while the test fails is not used    *)
(* again.                                                                  *)
(***************************************************************************)
ProcessQueueGet ==
    /\ pc["pq"] = "get"
    /\ message_queue # <<>>
    /\ message_queue' = Tail(message_queue)
    /\ IF healthy /\ upstream_ws # None
       THEN /\ message' = Head(message_queue)
            /\ sendSock' = upstream_ws
            /\ pc' = [pc EXCEPT !["pq"] = "send"]
       ELSE UNCHANGED <<message, sendSock, pc>>
    /\ UNCHANGED <<upstream_ws, healthy, reconnect_attempts, sockOpen, nextSock,
                   pingSock, backoff, attemptNo, nextEvent, sent, enqUnhealthy,
                   exhausted>>
    /\ UNCHANGED <<frontVars, poolVars, limitVars, mintVars, cliVars,
                   authVars, monVars>>

ProcessQueueSent ==
    /\ pc["pq"] = "send"
    /\ sendSock \in sockOpen
    /\ sent' = Append(sent, message)
    /\ message' = None
    /\ sendSock' = None
    /\ pc' = [pc EXCEPT !["pq"] = "get"]
    /\ UNCHANGED <<upstream_ws, healthy, reconnect_attempts, message_queue,
                   sockOpen, nextSock, pingSock, backoff, attemptNo, nextEvent,
                   enqUnhealthy, exhausted>>
    /\ UNCHANGED <<frontVars, poolVars, limitVars, mintVars, cliVars,
                   authVars, monVars>>

\* Where the failed message goes back: message_queue.put(message)
Requeue(q, m) == Append(q, m)

\* send raises: put the message back, mark unhealthy, reconnect
ProcessQueueSendFail ==
    /\ pc["pq"] = "send"
    /\ sendSock \notin sockOpen
    /\ message_queue' = Requeue(message_queue, message)
    /\ message' = None
    /\ sendSock' = None
    /\ healthy' = FALSE
    /\ handle_reconnect("pq")
    /\ UNCHANGED <<upstream_ws, sockOpen, nextSock, pingSock, nextEvent, sent,
                   enqUnhealthy>>
    /\ UNCHANGED <<frontVars, poolVars, limitVars, mintVars, cliVars,
                   authVars, monVars>>

(***************************************************************************)
(* message_queue.put(event) by a user of the session.  The queue is made   *)
(* by Queue(), which has no maxsize: put never waits, drops or raises.     *)
(***************************************************************************)
Enqueue ==
    /\ nextEvent <= MaxEvents
    /\ message_queue' = Append(message_queue, nextEvent)
    /\ nextEvent' = nextEvent + 1
    /\ enqUnhealthy' = IF healthy THEN enqUnhealthy
                       ELSE enqUnhealthy \cup {nextEvent}
    /\ UNCHANGED <<upstream_ws, healthy, reconnect_attempts, sockOpen, nextSock,
                   pc, message, sendSock, pingSock, backoff, attemptNo, sent,
                   exhausted>>
    /\ UNCHANGED <<frontVars, poolVars, limitVars, mintVars, cliVars,
                   authVars, monVars>>

\* The network or the upstream server ends a socket.
UpstreamDrop(s) ==
    /\ s \in sockOpen
    /\ sockOpen' = sockOpen \ {s}
    /\ UNCHANGED <<upstream_ws, healthy, reconnect_attempts, message_queue,
                   nextSock, pc, message, sendSock, pingSock, backoff,
                   attemptNo, nextEvent, sent, enqUnhealthy, exhausted>>
    /\ UNCHANGED <<frontVars, poolVars, limitVars, mintVars, cliVars,
                   authVars, monVars>>

\* RealtimeRelay.close, called by the endpoint's finally
Close ==
    /\ pc["main"] = "run"
    /\ sockOpen' = IF upstream_ws # None THEN sockOpen \ {upstream_ws}
                   ELSE sockOpen
    /\ pc' = [pc EXCEPT !["main"] = "closed"]
    /\ UNCHANGED <<upstream_ws, healthy, reconnect_attempts, message_queue,
                   nextSock, message, sendSock, pingSock, backoff, attemptNo,
                   nextEvent, sent, enqUnhealthy, exhausted>>
    /\ UNCHANGED <<frontVars, poolVars, limitVars, mintVars, cliVars,
                   authVars, monVars>>

SessionNext ==
    \/ \E t \in Tasks : DialOk(t)
    \/ \E t \in Tasks : DialFail(t)
    \/ HealthCheckPing
    \/ HealthCheckPong
    \/ HealthCheckFail
    \/ ProcessQueueGet
    \/ ProcessQueueSent
    \/ ProcessQueueSendFail
    \/ Enqueue
    \/ \E s \in 1..MaxSockets : UpstreamDrop(s)
    \/ Close

SpecSession == SessionInit /\ [][SessionNext]_vars

(***************************************************************************)
(* Properties of the upstream session, under SpecSession.                  *)
(***************************************************************************)

\* The events enqueued so far
Enqueued == 1 .. (nextEvent - 1)

InQueue(e) == \E i \in 1 .. Len(message_queue) : message_queue[i] = e

WasSent(e) == \E i \in 1 .. Len(sent) : sent[i] = e

\* The session keeps no count of discarded events: __init__ sets no such
\* field and no method counts one.
drop_counter == 0

\* The capacity the outbound queue is to be configured with; Queue() in
\* __init__ is given none.
QueueCapacity == 2

\* C3: events are numbered in enqueue order, so the claim says that upstream
\* receives them in increasing order: of two delivered events the one enqueued
\* first is delivered first, also across send failures and reconnects.
C3_DeliveredInEnqueueOrder ==
    \A i, j \in 1 .. Len(sent) : i < j => sent[i] < sent[j]

\* C4: an event enqueued while the session is unhealthy or reconnecting is
\* retained until it is sent: it is in the queue, in the hands of the sender,
\* or has been delivered upstream.
C4_UnhealthyEnqueueRetained ==
    \A e \in enqUnhealthy : InQueue(e) \/ message = e \/ WasSent(e)

\* C5: every event removed from the outbound queue is either sent upstream
\* (or being sent) or counted by the drop counter: the events that left the
\* queue undelivered are no more than the drops counted.
C5_DiscardsAreCounted ==
    Cardinality({e \in Enqueued : ~InQueue(e) /\ message # e /\ ~WasSent(e)})
        <= drop_counter

\* C6: the attempt counter never exceeds 3, the n-th attempt is made after a
\* wait of min(30, 2^n) seconds, and once three attempts have failed no
\* coroutine starts another attempt or opens a socket.  Attempts are numbered
\* as _handle_reconnect numbers them: by the counter, which a successful
\* connect resets.
C6_AttemptsAndBackoff ==
    /\ reconnect_attempts \in 0 .. 3
    /\ \A t \in Tasks :
          pc[t] = "reconnect" =>
              /\ attemptNo[t] \in 1 .. 3
              /\ backoff[t] = Min(30, 2 ^ attemptNo[t])

NoDialPending == \A t \in Tasks : pc[t] \notin {"connect", "reconnect"}

C6_StopsAfterThree ==
    (reconnect_attempts = 3 /\ NoDialPending)
        => (reconnect_attempts' = 3 /\ NoDialPending' /\ nextSock' = nextSock)

C6_ReconnectBounded == []C6_AttemptsAndBackoff /\ [][C6_StopsAfterThree]_vars

\* C6 witness: three attempts were made and failed, and the ladder ended.
C6_Witness ==
    exhausted /\ reconnect_attempts = 3 /\ NoDialPending /\ nextSock = 0

\* C7: once the reconnect attempts are exhausted the session is closed for
\* good: no step makes it healthy, opens an upstream socket or accepts an
\* event for sending.
C7_ExhaustedIsTerminal ==
    [][exhausted => (~healthy' /\ nextSock' = nextSock /\ nextEvent' = nextEvent)]_vars

\* C8: after close() no event is sent upstream and no upstream socket is
\* opened, whatever is in the queue or enqueued later.
C8_NothingAfterClose ==
    [][pc["main"] = "closed" => (sent' = sent /\ nextSock' = nextSock)]_vars

\* C9: the outbound queue never holds more events than its capacity.
C9_QueueWithinCapacity == Len(message_queue) <= QueueCapacity

\* C38: at most one reconnect procedure of the session is in progress at a
\* time: no two coroutines are inside _handle_reconnect's sleep and dial
\* together.
C38_OneReconnectAtATime ==
    Cardinality({t \in Tasks : pc[t] = "reconnect"}) <= 1

(***************************************************************************)
(* One client connection.  A handler reads the client socket one frame at  *)
(* a time; what it does with a frame up to its next read is one action.    *)
(* The mint (a blocking HTTP call) and the dial either succeed or fail.    *)
(***************************************************************************)
MaxFrames == 3

\* client_ws.close() without arguments closes with the normal-closure code
CloseNormal == 1000

FirstKinds == {"init_session", "other", "bad_json"}
PumpKinds == {"event", "bad_json"}

Msg(t, c) == [type |-> t, code |-> c]

\* The frames upstream sends: events by type, or a frame that is not JSON.
\* The error is one with a fatal code.
MaxUp == 2
UpKinds == {"session.created", "error", "response.done", "bad_json"}
FatalCode == "auth_failed"

\* An upstream event as the client sees it when it is sent on as it came
UpMsg(kind) == Msg(kind, IF kind = "error" THEN FatalCode ELSE "none")

\* RATE_LIMIT = 100  # requests per minute
RATE_LIMIT == 100

\* What a connecting client presents: a key the user store knows, one it
\* does not know, or nothing.
Credentials == {"valid", "invalid", "missing"}

\* The event_id of a client's event: one it assigned, or Absent when the
\* event has no such key.
Absent == <<>>
ClientEventIds == {<<"client", 1>>}

\* uuid.uuid4().hex[:6] is a random 24-bit value: here one of 0 .. MaxHex.
MaxHex == 1
HexValues == 0 .. MaxHex

\* f"evt_{...}"
evt(n) == <<"evt", n>>

\* A client event as the pumps see it: whether it has the key event_id, and
\* its value.
Event(id, t) == [event_id |-> id, type |-> t]

\* The client events the pumps are given: one that brings an event_id of
\* the client's, one that brings none; they differ in their type as well.
ClientEvents ==
    {Event(<<"client", 1>>, "response.create"),
     Event(Absent, "input_audio_buffer.append")}

\* websocket.send_text / client_ws.send of an upstream event: the pump awaits
\* each send before it takes the next frame, so the client gets them in the
\* order sent; stream is what was sent so far, e the number of the event.
Forward_newest_first(stream, e) == <<e>> \o stream

Forward(stream, e) == Append(stream, e)

\* if "event_id" not in data: data["event_id"] = f"evt_{uuid.uuid4().hex[:6]}"
Stamp_never(data, n) == data

Stamp_always(data, n) == [data EXCEPT !.event_id = evt(n)]

Stamp(data, n) ==
    IF data.event_id = Absent THEN [data EXCEPT !.event_id = evt(n)] ELSE data

\* What reading the event frame data does to the stamped values and to the
\* count of the principal's events; open says whether the send succeeds.
PumpEvent(data, n, open) ==
    /\ lastRecv' = <<data>>
    /\ stamped' = IF data.event_id = Absent THEN stamped \cup {n} ELSE stamped
    /\ principalEvents' = principalEvents + 1
    /\ lastSent' = IF open THEN <<Stamp(data, n)>> ELSE lastSent

FrontInit ==
    /\ server \in {"modal", "local"}
    /\ fpc = "accept"
    /\ closeCode = 0
    /\ toClient = <<>>
    /\ frames = 0
    /\ firstFrame = "none"
    /\ minted = 0
    /\ relays = <<>>
    /\ forwarded = 0
    /\ credentials \in Credentials
    /\ principalEvents \in {0, RATE_LIMIT - 1}
    /\ lastSent = <<>>
    /\ stamped = {}
    /\ initTimer = "running"
    /\ mintAttempts = 0
    /\ lastFrame = "none"
    /\ upPump = "off"
    /\ upEvents = 0
    /\ lastUp = "none"
    /\ lastRecv = <<>>
    /\ fromUp = <<>>
    /\ SessionIdle
    /\ PoolIdle
    /\ LimitIdle
    /\ MintIdle
    /\ CliIdle
    /\ AuthIdle
    /\ MonIdle

\* The RealtimeRelay the handler's variable `relay` refers to: the last made
CurrentOpen == relays # <<>> /\ relays[Len(relays)] = "open"

\* relay.close(): closes the socket of the current relay, if it has one
CloseCurrent(rs) ==
    IF rs # <<>> /\ rs[Len(rs)] = "open"
    THEN [rs EXCEPT ![Len(rs)] = "closed"]
    ELSE rs

\* websocket_endpoint: accept and acknowledge; handle_client of
\* relay_server.py is entered with the socket accepted and sends nothing.
Accept ==
    /\ fpc = "accept"
    /\ IF server = "modal"
       THEN /\ toClient' = Append(toClient, Msg("connection.established", "none"))
            /\ fpc' = "loop"
       ELSE /\ toClient' = toClient
            /\ fpc' = "first"
    /\ UNCHANGED <<server, closeCode, frames, firstFrame, minted, relays,
                   forwarded>>
    /\ UNCHANGED <<credentials, principalEvents, lastSent, stamped, initTimer, mintAttempts>>
    /\ UNCHANGED <<lastFrame, upPump, upEvents, lastUp>>
    /\ UNCHANGED <<lastRecv, fromUp>>
    /\ UNCHANGED <<sessVars, poolVars, limitVars, mintVars, cliVars,
                   authVars, monVars>>

(***************************************************************************)
(* websocket_endpoint's own loop reads a frame.  An init_session mints a   *)
(* token, makes a new RealtimeRelay (replacing the variable relay),        *)
(* connects it and runs the pumps; connect_upstream does not raise, and    *)
(* with no socket the pumps end at once.  Any other frame is answered and  *)
(* the loop goes on.                                                       *)
(***************************************************************************)
ModalRecv(kind, mintOk, dialOk) ==
    /\ server = "modal"
    /\ fpc = "loop"
    /\ frames < MaxFrames
    /\ frames' = frames + 1
    /\ firstFrame' = IF frames = 0 THEN kind ELSE firstFrame
    /\ mintAttempts' = IF kind = "init_session" THEN mintAttempts + 1
                                                  ELSE mintAttempts
    /\ CASE kind = "bad_json" ->
              /\ toClient' = Append(toClient, Msg("error", "none"))
              /\ UNCHANGED <<fpc, minted, relays>>
         [] kind = "other" ->
              /\ toClient' = Append(toClient, Msg("message", "none"))
              /\ UNCHANGED <<fpc, minted, relays>>
         [] kind = "init_session" /\ ~mintOk ->
              /\ toClient' = Append(toClient, Msg("error", "relay_init_failed"))
              /\ UNCHANGED <<fpc, minted, relays>>
         [] kind = "init_session" /\ mintOk ->
              /\ minted' = minted + 1
              /\ relays' = Append(relays, IF dialOk THEN "open" ELSE "none")
              /\ fpc' = IF dialOk THEN "pumps" ELSE "loop"
              /\ toClient' = toClient
    /\ UNCHANGED <<server, closeCode, forwarded>>
    /\ UNCHANGED <<credentials, principalEvents, lastSent, stamped, initTimer>>
    /\ lastFrame' = kind
    /\ upPump' = IF kind = "init_session" /\ mintOk /\ dialOk
                 THEN "running" ELSE upPump
    /\ UNCHANGED <<upEvents, lastUp>>
    /\ UNCHANGED <<lastRecv, fromUp>>
    /\ UNCHANGED <<sessVars, poolVars, limitVars, mintVars, cliVars,
                   authVars, monVars>>

(***************************************************************************)
(* handle_client of realtime_relay_modal_app.py: relay_local_to_upstream   *)
(* reads a frame.  A frame that is not JSON, or a send on a closed         *)
(* upstream socket, raises in the pump; asyncio.wait returns, the other    *)
(* pump is cancelled and control is back in websocket_endpoint's loop.     *)
(***************************************************************************)
ModalPumpRecv(kind, id, t, n) ==
    /\ server = "modal"
    /\ fpc = "pumps"
    /\ frames < MaxFrames
    /\ frames' = frames + 1
    /\ IF kind = "event" /\ CurrentOpen
       THEN /\ forwarded' = forwarded + 1
            /\ fpc' = fpc
       ELSE /\ forwarded' = forwarded
            /\ fpc' = "loop"
    /\ IF kind = "event"
       THEN PumpEvent(Event(id, t), n, CurrentOpen)
       ELSE UNCHANGED <<principalEvents, lastSent, stamped, lastRecv>>
    /\ UNCHANGED <<server, closeCode, toClient, firstFrame, minted, relays>>
    /\ UNCHANGED <<credentials, initTimer, mintAttempts>>
    /\ lastFrame' = kind
    /\ upPump' = IF kind = "event" /\ CurrentOpen THEN upPump ELSE "off"
    /\ UNCHANGED <<upEvents, lastUp>>
    /\ UNCHANGED fromUp
    /\ UNCHANGED <<sessVars, poolVars, limitVars, mintVars, cliVars,
                   authVars, monVars>>

\* The client goes away: the read raises, and the finally clause closes the
\* relay that the variable relay refers to.
ModalDisconnect ==
    /\ server = "modal"
    /\ fpc \in {"loop", "pumps"}
    /\ relays' = CloseCurrent(relays)
    /\ fpc' = "done"
    /\ UNCHANGED <<server, closeCode, toClient, frames, firstFrame, minted,
                   forwarded>>
    /\ UNCHANGED <<credentials, principalEvents, lastSent, stamped, initTimer, mintAttempts>>
    /\ upPump' = "off"
    /\ UNCHANGED <<lastFrame, upEvents, lastUp>>
    /\ UNCHANGED <<lastRecv, fromUp>>
    /\ UNCHANGED <<sessVars, poolVars, limitVars, mintVars, cliVars,
                   authVars, monVars>>

(***************************************************************************)
(* handle_client of relay_server.py: the first frame.  Every way out of    *)
(* the handler passes its finally clause, client_ws.close().               *)
(***************************************************************************)
LocalFirst(kind, mintOk, dialOk) ==
    /\ server = "local"
    /\ fpc = "first"
    /\ frames' = frames + 1
    /\ firstFrame' = kind
    /\ mintAttempts' = IF kind = "init_session" THEN mintAttempts + 1
                                                  ELSE mintAttempts
    /\ CASE kind = "bad_json" ->
              /\ toClient' = Append(toClient, Msg("server_relay_error", "none"))
              /\ closeCode' = CloseNormal
              /\ fpc' = "done"
              /\ UNCHANGED <<minted, relays>>
         [] kind = "other" ->
              /\ toClient' = Append(toClient, Msg("error", "invalid_event"))
              /\ closeCode' = CloseNormal
              /\ fpc' = "done"
              /\ UNCHANGED <<minted, relays>>
         [] kind = "init_session" /\ ~mintOk ->
              /\ toClient' = Append(toClient, Msg("error", "token_creation_failed"))
              /\ closeCode' = CloseNormal
              /\ fpc' = "done"
              /\ UNCHANGED <<minted, relays>>
         [] kind = "init_session" /\ mintOk /\ ~dialOk ->
              /\ minted' = minted + 1
              /\ relays' = Append(relays, "none")
              /\ toClient' = Append(toClient, Msg("server_relay_error", "none"))
              /\ closeCode' = CloseNormal
              /\ fpc' = "done"
         [] kind = "init_session" /\ mintOk /\ dialOk ->
              /\ minted' = minted + 1
              /\ relays' = Append(relays, "open")
              /\ fpc' = "pumps"
              /\ UNCHANGED <<toClient, closeCode>>
    /\ UNCHANGED <<server, forwarded>>
    /\ UNCHANGED <<credentials, principalEvents, lastSent, stamped, initTimer>>
    /\ lastFrame' = kind
    /\ upPump' = IF kind = "init_session" /\ mintOk /\ dialOk
                 THEN "running" ELSE upPump
    /\ UNCHANGED <<upEvents, lastUp>>
    /\ UNCHANGED <<lastRecv, fromUp>>
    /\ UNCHANGED <<sessVars, poolVars, limitVars, mintVars, cliVars,
                   authVars, monVars>>

\* no frame within 5 s
LocalTimeout ==
    /\ server = "local"
    /\ fpc = "first"
    /\ initTimer = "running"
    /\ initTimer' = "expired"
    /\ closeCode' = CloseNormal
    /\ fpc' = "done"
    /\ UNCHANGED <<server, toClient, frames, firstFrame, minted, relays,
                   forwarded>>
    /\ UNCHANGED <<credentials, principalEvents, lastSent, stamped, mintAttempts>>
    /\ UNCHANGED <<lastFrame, upPump, upEvents, lastUp>>
    /\ UNCHANGED <<lastRecv, fromUp>>
    /\ UNCHANGED <<sessVars, poolVars, limitVars, mintVars, cliVars,
                   authVars, monVars>>

\* relay_local_to_upstream of relay_server.py reads a frame
LocalPumpRecv(kind, id, t, n) ==
    /\ server = "local"
    /\ fpc = "pumps"
    /\ frames < MaxFrames
    /\ frames' = frames + 1
    /\ IF kind = "event"
       THEN PumpEvent(Event(id, t), n, CurrentOpen)
       ELSE UNCHANGED <<principalEvents, lastSent, stamped, lastRecv>>
    /\ CASE kind = "bad_json" ->
              /\ toClient' = Append(toClient, Msg("error", "invalid_json"))
              /\ UNCHANGED <<fpc, closeCode, forwarded>>
         [] kind = "event" /\ CurrentOpen ->
              /\ forwarded' = forwarded + 1
              /\ UNCHANGED <<fpc, closeCode, toClient>>
         [] kind = "event" /\ ~CurrentOpen ->
              /\ closeCode' = CloseNormal
              /\ fpc' = "done"
              /\ UNCHANGED <<toClient, forwarded>>
    /\ UNCHANGED <<server, firstFrame, minted, relays>>
    /\ UNCHANGED <<credentials, initTimer, mintAttempts>>
    /\ lastFrame' = kind
    /\ upPump' = IF kind = "event" /\ ~CurrentOpen THEN "off" ELSE upPump
    /\ UNCHANGED <<upEvents, lastUp>>
    /\ UNCHANGED fromUp
    /\ UNCHANGED <<sessVars, poolVars, limitVars, mintVars, cliVars,
                   authVars, monVars>>

\* The client goes away: recv raises ConnectionClosed, which is passed over,
\* and the finally clause runs.
LocalDisconnect ==
    /\ server = "local"
    /\ fpc \in {"first", "pumps"}
    /\ closeCode' = CloseNormal
    /\ fpc' = "done"
    /\ UNCHANGED <<server, toClient, frames, firstFrame, minted, relays,
                   forwarded>>
    /\ UNCHANGED <<credentials, principalEvents, lastSent, stamped, initTimer, mintAttempts>>
    /\ upPump' = "off"
    /\ UNCHANGED <<lastFrame, upEvents, lastUp>>
    /\ UNCHANGED <<lastRecv, fromUp>>
    /\ UNCHANGED <<sessVars, poolVars, limitVars, mintVars, cliVars,
                   authVars, monVars>>

\* Five seconds pass after accept with no frame from the client:
\* websocket_endpoint has no timer, its receive_text() goes on waiting.
ModalSilent ==
    /\ server = "modal"
    /\ fpc = "loop"
    /\ frames = 0
    /\ initTimer = "running"
    /\ initTimer' = "expired"
    /\ UNCHANGED <<server, fpc, closeCode, toClient, frames, firstFrame, minted,
                   relays, forwarded, credentials, principalEvents, lastSent,
                   stamped, mintAttempts>>
    /\ UNCHANGED <<lastFrame, upPump, upEvents, lastUp>>
    /\ UNCHANGED <<lastRecv, fromUp>>
    /\ UNCHANGED <<sessVars, poolVars, limitVars, mintVars, cliVars,
                   authVars, monVars>>

(***************************************************************************)
(* relay_upstream_to_local takes a frame from the upstream socket.         *)
(* realtime_relay_modal_app.py sends every frame on as it came; a frame    *)
(* that is not JSON raises in the pump, asyncio.wait returns, the other    *)
(* pump is cancelled and control is back in websocket_endpoint's loop.     *)
(***************************************************************************)
ModalUpstreamEvent(kind) ==
    /\ server = "modal"
    /\ fpc = "pumps"
    /\ upPump = "running"
    /\ CurrentOpen
    /\ upEvents < MaxUp
    /\ upEvents' = upEvents + 1
    /\ lastUp' = kind
    /\ IF kind = "bad_json"
       THEN /\ fpc' = "loop"
            /\ upPump' = "off"
            /\ UNCHANGED <<toClient, fromUp>>
       ELSE /\ toClient' = Append(toClient, UpMsg(kind))
            /\ fromUp' = Forward(fromUp, upEvents + 1)
            /\ UNCHANGED <<fpc, upPump>>
    /\ UNCHANGED <<server, closeCode, frames, firstFrame, minted, relays,
                   forwarded, credentials, principalEvents, lastSent, stamped,
                   initTimer, mintAttempts, lastFrame>>
    /\ UNCHANGED lastRecv
    /\ UNCHANGED <<sessVars, poolVars, limitVars, mintVars, cliVars,
                   authVars, monVars>>

(***************************************************************************)
(* relay_upstream_to_local of relay_server.py: session.created is printed  *)
(* and not sent on, an error is sent on rewritten with code api_error, any *)
(* other event is sent on as it came.  A frame that is not JSON raises;    *)
(* the pump's handler sends an error with code relay_failed and the pump   *)
(* returns, which asyncio.wait(FIRST_EXCEPTION) does not take as a failure.*)
(***************************************************************************)
LocalUpstreamEvent(kind) ==
    /\ server = "local"
    /\ fpc = "pumps"
    /\ upPump = "running"
    /\ CurrentOpen
    /\ upEvents < MaxUp
    /\ upEvents' = upEvents + 1
    /\ lastUp' = kind
    /\ CASE kind = "session.created" ->
              UNCHANGED <<toClient, upPump, fromUp>>
         [] kind = "error" ->
              /\ toClient' = Append(toClient, Msg("error", "api_error"))
              /\ fromUp' = Forward(fromUp, upEvents + 1)
              /\ upPump' = upPump
         [] kind = "bad_json" ->
              /\ toClient' = Append(toClient, Msg("error", "relay_failed"))
              /\ upPump' = "ended"
              /\ fromUp' = fromUp
         [] OTHER ->
              /\ toClient' = Append(toClient, UpMsg(kind))
              /\ fromUp' = Forward(fromUp, upEvents + 1)
              /\ upPump' = upPump
    /\ UNCHANGED <<server, fpc, closeCode, frames, firstFrame, minted, relays,
                   forwarded, credentials, principalEvents, lastSent, stamped,
                   initTimer, mintAttempts, lastFrame>>
    /\ UNCHANGED lastRecv
    /\ UNCHANGED <<sessVars, poolVars, limitVars, mintVars, cliVars,
                   authVars, monVars>>

\* The upstream socket of a relay made for this connection ends; the pump
\* reading it gets ConnectionClosed and returns.
FrontUpstreamDrop(r) ==
    /\ r \in 1 .. Len(relays)
    /\ relays[r] = "open"
    /\ relays' = [relays EXCEPT ![r] = "closed"]
    /\ UNCHANGED <<server, fpc, closeCode, toClient, frames, firstFrame, minted,
                   forwarded>>
    /\ UNCHANGED <<credentials, principalEvents, lastSent, stamped, initTimer, mintAttempts>>
    /\ upPump' = IF r = Len(relays) /\ upPump = "running" THEN "ended"
                                                           ELSE upPump
    /\ UNCHANGED <<lastFrame, upEvents, lastUp>>
    /\ UNCHANGED <<lastRecv, fromUp>>
    /\ UNCHANGED <<sessVars, poolVars, limitVars, mintVars, cliVars,
                   authVars, monVars>>

FrontNext ==
    \/ Accept
    \/ \E k \in FirstKinds, m, d \in BOOLEAN : ModalRecv(k, m, d)
    \/ \E k \in PumpKinds, e \in ClientEvents, n \in HexValues :
           ModalPumpRecv(k, e.event_id, e.type, n)
    \/ ModalSilent
    \/ ModalDisconnect
    \/ \E k \in FirstKinds, m, d \in BOOLEAN : LocalFirst(k, m, d)
    \/ LocalTimeout
    \/ \E k \in PumpKinds, e \in ClientEvents, n \in HexValues :
           LocalPumpRecv(k, e.event_id, e.type, n)
    \/ LocalDisconnect
    \/ \E k \in UpKinds : ModalUpstreamEvent(k)
    \/ \E k \in UpKinds : LocalUpstreamEvent(k)
    \/ \E r \in 1 .. MaxFrames : FrontUpstreamDrop(r)

SpecFront == FrontInit /\ [][FrontNext]_vars

\* The handler's own steps are taken when they can be: the accept and the
\* 5 s timer.  Frames and closes of the client and of upstream are not.
SpecFrontLive == SpecFront /\ WF_vars(Accept) /\ WF_vars(LocalTimeout)

(***************************************************************************)
(* Properties of the connection handler, under SpecFront.                  *)
(***************************************************************************)

\* C1: when the first frame of a connection has a type other than
\* init_session, the connection is closed with code 4408, no token is
\* minted, no upstream session is made, and no later frame is read.
C1_BadFirstFrameCloses ==
    firstFrame = "other" =>
        /\ fpc = "done"
        /\ closeCode = 4408
        /\ minted = 0
        /\ relays = <<>>
        /\ frames = 1

\* C2: when the handler of a connection has terminated, no upstream session
\* made for that connection still has its socket open.
C2_SessionsReleasedOnExit ==
    fpc = "done" => \A r \in 1 .. Len(relays) : relays[r] # "open"

\* C13: a client event that arrives when its principal has used up the rate
\* limit is not sent upstream; the client is sent an error with code
\* rate_limited and the connection stays open.
C13_ExhaustedNotForwarded ==
    [][(/\ fpc = "pumps"
        /\ principalEvents >= RATE_LIMIT
        /\ principalEvents' > principalEvents)
       => (/\ forwarded' = forwarded
           /\ toClient' = Append(toClient, Msg("error", "rate_limited"))
           /\ fpc' = "pumps"
           /\ closeCode' = closeCode)]_vars

\* C15: a connection whose authentication fails is closed with code 4401
\* before anything else: nothing was sent to the client, no frame was read,
\* no token was minted and no upstream session was made.
C15_AuthFailureClosesFirst ==
    (credentials # "valid" /\ fpc # "accept") =>
        /\ fpc = "done"
        /\ closeCode = 4401
        /\ toClient = <<>>
        /\ frames = 0
        /\ mintAttempts = 0
        /\ relays = <<>>

\* C16: when an accepted client has sent no frame within 5 s the connection
\* is closed with code 4408 and no upstream session was made for it.
C16_InitTimeoutCloses ==
    initTimer = "expired" =>
        /\ fpc = "done"
        /\ closeCode = 4408
        /\ relays = <<>>

\* C17: every client event sent upstream carries an event_id: the client's
\* own, or the one the relay stamped when the client's event had none.
C17_SentEventsCarryId ==
    lastSent # <<>> => lastSent[1].event_id # Absent

\* An event that came without event_id went upstream with a stamped one.
C17_Witness ==
    /\ lastSent # <<>>
    /\ \E n \in HexValues : lastSent[1].event_id = evt(n)

\* C18: the event ids the relay stamps on one connection are pairwise
\* distinct: an event is never sent with a stamp used before on it.
C18_StampsDistinct ==
    [][\A n \in HexValues :
          (/\ forwarded' > forwarded
           /\ lastSent'[1].event_id = evt(n)) => n \notin stamped]_vars

\* C20: when minting the token fails during setup, the mint is not tried
\* again, no upstream session is made, the client is sent an error with code
\* relay_init_failed, and the connection is then closed.
C20_MintFailureCloses ==
    [][(mintAttempts' > mintAttempts /\ minted' = minted)
       => (/\ mintAttempts' = mintAttempts + 1
           /\ relays' = relays
           /\ toClient' = Append(toClient, Msg("error", "relay_init_failed"))
           /\ fpc' = "done")]_vars

\* C21: a client frame read by the pump that is not JSON is answered with an
\* error of code invalid_json, sends nothing upstream, and leaves the
\* connection and both pumps running.
C21_InvalidJsonAnswered ==
    [][(fpc = "pumps" /\ frames' > frames /\ lastFrame' = "bad_json")
       => (/\ toClient' = Append(toClient, Msg("error", "invalid_json"))
           /\ forwarded' = forwarded
           /\ fpc' = "pumps"
           /\ upPump' = upPump)]_vars

\* C22: once the upstream socket has closed with the pumps started, the
\* pumps end and the client connection is closed, whether or not the client
\* sends another frame.
C22_UpstreamCloseEndsConnection ==
    (fpc = "pumps" /\ ~CurrentOpen) ~> (fpc = "done")

\* C23: an upstream error with a fatal code is sent on to the client and the
\* client connection is then closed with code 4502, so that no later
\* upstream event is sent on.
C23_FatalErrorCloses ==
    [][(upEvents' > upEvents /\ lastUp' = "error")
       => (/\ toClient' = Append(toClient, UpMsg("error"))
           /\ fpc' = "done"
           /\ closeCode' = 4502)]_vars

\* C24: when a pump raises an unexpected exception (here: on an upstream
\* frame that is not JSON) the client connection is closed and no further
\* client frame is read.
C24_PumpExceptionCloses ==
    [][(upEvents' > upEvents /\ lastUp' = "bad_json")
       => (fpc' = "done" /\ closeCode' # 0)]_vars

\* C25: when the client closes its socket while its upstream session is
\* open, the session goes back to the pool with its socket left open.
C25_ClientCloseReleases ==
    [][(fpc # "done" /\ fpc' = "done" /\ frames' = frames /\ CurrentOpen)
       => (/\ relays' = relays
           /\ Len(pool_queue') = Len(pool_queue) + 1)]_vars

\* C26: every session.created taken from upstream is sent on to the client.
C26_SessionCreatedForwarded ==
    [][(upEvents' > upEvents /\ lastUp' = "session.created")
       => toClient' = Append(toClient, UpMsg("session.created"))]_vars

\* C31: on an accepted connection the first frame sent to the client is
\* connection.established, and it is sent before any client frame is read.
C31_EstablishedFirst ==
    /\ toClient # <<>> => toClient[1] = Msg("connection.established", "none")
    /\ frames > 0 => toClient # <<>>

\* C33: the upstream events sent on to the client reach it in the order
\* upstream sent them: the client's stream is a subsequence of upstream's.
C33_UpstreamOrderKept ==
    \A i, j \in 1 .. Len(fromUp) : i < j => fromUp[i] < fromUp[j]

\* Two upstream events were sent on to the client.
C33_Witness == Len(fromUp) >= 2

MaxCreated == 11

\* def __init__(self, max_size: int = 10)
DefaultMaxSize == 10

PoolSizes == {1, 2, DefaultMaxSize}

Callers == {"a", "b", "c"}

\* _create_relay as the class has it
create_relay == None

\* _create_relay as a user of the class is to supply it ("Implementation
\* depends on your RealtimeRelay class"): the n-th call mints a credential,
\* opens a new upstream session, which is Healthy, and returns it.
fresh_relay(n) == n

\* The pools that are made: the class as it is with any size, and the class
\* with _create_relay supplied with a small size.
PoolConfigs ==
    {<<"stub", n>> : n \in PoolSizes} \cup {<<"fresh", n>> : n \in {1, 2}}

PoolInit ==
    /\ \E cfg \in PoolConfigs :
           /\ factory = cfg[1]
           /\ max_size = cfg[2]
    /\ pool = {}
    /\ pool_queue = <<>>
    /\ created = 0
    /\ holder = [c \in Callers |-> "idle"]
    /\ held = [c \in Callers |-> None]
    /\ unhealthy = {}
    /\ releasedUnhealthy = {}
    /\ SessionIdle
    /\ FrontIdle
    /\ LimitIdle
    /\ MintIdle
    /\ CliIdle
    /\ AuthIdle
    /\ MonIdle

\* self.queue.get(): what is left in the queue when its head is taken
queue_get_peek(q) == q

queue_get(q) == Tail(q)

\* if len(self.pool) < self.max_size
BelowCapacity == Cardinality(pool) < max_size

\* acquire: below capacity call _create_relay, else take a relay from the
\* queue of released relays, waiting while that queue is empty.  The stub
\* _create_relay returns without suspending, a supplied one suspends while
\* it opens the session.
Acquire(c) ==
    /\ holder[c] = "idle"
    /\ IF BelowCapacity
       THEN /\ created < MaxCreated
            /\ created' = created + 1
            /\ IF factory = "stub"
               THEN /\ pool' = pool \cup {create_relay}
                    /\ holder' = [holder EXCEPT ![c] = "holding"]
                    /\ held' = [held EXCEPT ![c] = create_relay]
               ELSE /\ pool' = pool
                    /\ holder' = [holder EXCEPT ![c] = "creating"]
                    /\ held' = [held EXCEPT ![c] = fresh_relay(created + 1)]
            /\ pool_queue' = pool_queue
       ELSE IF pool_queue # <<>>
            THEN /\ pool_queue' = queue_get(pool_queue)
                 /\ holder' = [holder EXCEPT ![c] = "holding"]
                 /\ held' = [held EXCEPT ![c] = Head(pool_queue)]
                 /\ UNCHANGED <<created, pool>>
            ELSE /\ holder' = [holder EXCEPT ![c] = "waiting"]
                 /\ UNCHANGED <<created, pool, pool_queue, held>>
    /\ UNCHANGED <<max_size, factory, unhealthy, releasedUnhealthy>>
    /\ UNCHANGED <<sessVars, frontVars, limitVars, mintVars, cliVars,
                   authVars, monVars>>

\* _create_relay returns to acquire: self.pool.add(relay); return relay
AcquireCreated(c) ==
    /\ holder[c] = "creating"
    /\ pool' = pool \cup {held[c]}
    /\ holder' = [holder EXCEPT ![c] = "holding"]
    /\ UNCHANGED <<max_size, factory, pool_queue, created, held, unhealthy,
                   releasedUnhealthy>>
    /\ UNCHANGED <<sessVars, frontVars, limitVars, mintVars, cliVars,
                   authVars, monVars>>

\* queue.get() returns to a waiting acquire
AcquireResume(c) ==
    /\ holder[c] = "waiting"
    /\ pool_queue # <<>>
    /\ pool_queue' = queue_get(pool_queue)
    /\ holder' = [holder EXCEPT ![c] = "holding"]
    /\ held' = [held EXCEPT ![c] = Head(pool_queue)]
    /\ UNCHANGED <<max_size, factory, pool, created, unhealthy,
                   releasedUnhealthy>>
    /\ UNCHANGED <<sessVars, frontVars, limitVars, mintVars, cliVars,
                   authVars, monVars>>

\* release: await self.queue.put(relay)
Release(c) ==
    /\ holder[c] = "holding"
    /\ pool_queue' = Append(pool_queue, held[c])
    /\ holder' = [holder EXCEPT ![c] = "idle"]
    /\ held' = [held EXCEPT ![c] = None]
    /\ releasedUnhealthy' = IF held[c] \in unhealthy
                            THEN releasedUnhealthy \cup {held[c]}
                            ELSE releasedUnhealthy
    /\ UNCHANGED <<max_size, factory, pool, created, unhealthy>>
    /\ UNCHANGED <<sessVars, frontVars, limitVars, mintVars, cliVars,
                   authVars, monVars>>

\* The upstream session r stops being Healthy (self.healthy = False).
RelayFails(r) ==
    /\ r \in pool
    /\ r # None
    /\ r \notin unhealthy
    /\ unhealthy' = unhealthy \cup {r}
    /\ UNCHANGED <<max_size, factory, pool, pool_queue, created, holder, held,
                   releasedUnhealthy>>
    /\ UNCHANGED <<sessVars, frontVars, limitVars, mintVars, cliVars,
                   authVars, monVars>>

PoolNext ==
    \/ \E c \in Callers : Acquire(c)
    \/ \E c \in Callers : AcquireCreated(c)
    \/ \E c \in Callers : AcquireResume(c)
    \/ \E c \in Callers : Release(c)
    \/ \E r \in 1 .. MaxCreated : RelayFails(r)

SpecPool == PoolInit /\ [][PoolNext]_vars

(***************************************************************************)
(* Properties of the pool, under SpecPool.                                 *)
(***************************************************************************)

\* C10: under every interleaving of acquire and release the pool has created
\* no more sessions than max_size: at capacity an acquire waits instead.
C10_CreatedWithinCapacity == created <= max_size

\* The released sessions that wait in the pool and are Healthy
IdleHealthy ==
    {pool_queue[i] : i \in 1 .. Len(pool_queue)} \ (unhealthy \cup {None})

\* C11: acquire makes no new session while a released Healthy session is
\* idle in the pool (sessions of one pool have one fingerprint: acquire
\* takes no session_config).
C11_ReuseBeforeCreate ==
    [][created' > created => IdleHealthy = {}]_vars

\* C12: a session released while not Healthy does not re-enter the pool and
\* no later acquire returns it.
C12_UnhealthyNotPooled ==
    \A r \in releasedUnhealthy :
        /\ \A i \in 1 .. Len(pool_queue) : pool_queue[i] # r
        /\ \A c \in Callers : held[c] # r

\* C37: no two callers hold the same session at the same time: a session an
\* acquire has returned is returned by no other acquire before it is
\* released.  (None, which the class's own _create_relay returns, is not a
\* session.)
C37_HeldByOne ==
    \A c1, c2 \in Callers :
        (/\ c1 # c2
         /\ holder[c1] = "holding"
         /\ holder[c2] = "holding"
         /\ held[c1] # None)
        => held[c1] # held[c2]

\* Two callers hold sessions at the same time, after a session was released
\* to the queue and taken from it.
C37_Witness ==
    /\ holder["a"] = "holding"
    /\ holder["b"] = "holding"
    /\ held["a"] # None
    /\ held["b"] # None
    /\ created = 2
    /\ holder["c"] = "waiting"

(***************************************************************************)
(* RateLimiter.  A check reads the clock and the record of its client id   *)
(* and has no await inside: it is one step.  The clock is in seconds.  A   *)
(* client makes at most MaxChecks checks in one window.                    *)
(***************************************************************************)
MaxChecks == 102

\* RATE_WINDOW = 60  # seconds
RATE_WINDOW == 60

ClientIds == {"a", "b"}

\* The instants at which checks are made
Times == {0, RATE_WINDOW, RATE_WINDOW + 1}

\* RateLimit(count, window_start)
RateLimit(c, w) == [count |-> c, window_start |-> w]

\* if rate_data.count >= RATE_LIMIT
AtLimit_above(n) == n > RATE_LIMIT

AtLimit(n) == n >= RATE_LIMIT

\* if now - rate_data.window_start > RATE_WINDOW
WindowExpired_at_boundary(start, t) == t - start >= RATE_WINDOW

WindowExpired(start, t) == t - start > RATE_WINDOW

\* self.clients[client_id]: the key under which a client's record is kept
Key_shared(c) == "a"

Key(c) == c

\* check_rate_limit on the record rec of the client (<<>> when the client id
\* is not in self.clients) at time t: the record afterwards and the result.
check_rate_limit(rec, t) ==
    IF rec = <<>>
    THEN [data |-> <<RateLimit(1, t)>>, ok |-> TRUE]
    ELSE IF WindowExpired(rec[1].window_start, t)
         THEN [data |-> <<RateLimit(1, t)>>, ok |-> TRUE]
         ELSE IF AtLimit(rec[1].count)
              THEN [data |-> rec, ok |-> FALSE]
              ELSE [data |-> <<RateLimit(rec[1].count + 1, rec[1].window_start)>>,
                    ok |-> TRUE]

\* The window a check at time t falls into, given the window w of the
\* client's check before it: a window opens with the first check and with
\* the first check more than RATE_WINDOW after the window's start.
WindowAt(w, t) ==
    IF w = <<>> \/ t - w[1].start > RATE_WINDOW
    THEN [start |-> t, checks |-> 0, allowed |-> 0]
    ELSE w[1]

\* The checks a client made at time 0 before the run starts: none, or one
\* short of the limit
EarlierChecks == {0, RATE_LIMIT - 1}

LimitInit ==
    /\ \E n \in [ClientIds -> EarlierChecks] :
          /\ clients = [c \in ClientIds |->
                          IF n[c] = 0 THEN <<>> ELSE <<RateLimit(n[c], 0)>>]
          /\ windows = [c \in ClientIds |->
                          IF n[c] = 0 THEN <<>>
                          ELSE <<[start |-> 0, checks |-> n[c],
                                  allowed |-> n[c]]>>]
          /\ alone = [c \in ClientIds |->
                        IF n[c] = 0 THEN <<>> ELSE <<RateLimit(n[c], 0)>>]
    /\ now = 0
    /\ lastCheck = <<>>
    /\ SessionIdle
    /\ FrontIdle
    /\ PoolIdle
    /\ MintIdle
    /\ CliIdle
    /\ AuthIdle
    /\ MonIdle

Check(c) ==
    /\ WindowAt(windows[c], now).checks < MaxChecks
    /\ LET r == check_rate_limit(clients[Key(c)], now)
           w == WindowAt(windows[c], now)
           ra == check_rate_limit(alone[c], now)
       IN  /\ clients' = [clients EXCEPT ![Key(c)] = r.data]
           /\ alone' = [alone EXCEPT ![c] = ra.data]
           /\ windows' = [windows EXCEPT ![c] =
                  <<[start |-> w.start,
                     checks |-> w.checks + 1,
                     allowed |-> w.allowed + (IF r.ok THEN 1 ELSE 0)]>>]
           /\ lastCheck' = <<[client |-> c, ordinal |-> w.checks + 1,
                              ok |-> r.ok, okAlone |-> ra.ok,
                              atLimit |-> /\ clients[c] # <<>>
                                          /\ AtLimit(clients[c][1].count)]>>
    /\ UNCHANGED now
    /\ UNCHANGED <<sessVars, frontVars, poolVars, mintVars, cliVars,
                   authVars, monVars>>

\* Time passes: datetime.now() gives a later instant.
Tick(t) ==
    /\ t > now
    /\ now' = t
    /\ UNCHANGED <<clients, windows, lastCheck, alone>>
    /\ UNCHANGED <<sessVars, frontVars, poolVars, mintVars, cliVars,
                   authVars, monVars>>

LimitNext ==
    \/ \E c \in ClientIds : Check(c)
    \/ \E t \in Times : Tick(t)

SpecLimit == LimitInit /\ [][LimitNext]_vars

(***************************************************************************)
(* Properties of the rate limiter, under SpecLimit.                        *)
(***************************************************************************)

\* C14: starting from no record, the first RATE_LIMIT checks of a client in
\* one window are allowed and every further check in that window is denied;
\* the checks allowed in a window are never more than RATE_LIMIT.
C14_FirstHundredAllowed ==
    /\ lastCheck # <<>> =>
           (lastCheck[1].ok <=> lastCheck[1].ordinal <= RATE_LIMIT)
    /\ \A c \in ClientIds :
           windows[c] # <<>> => windows[c][1].allowed <= RATE_LIMIT

\* A check beyond the first RATE_LIMIT of its window was made and denied.
C14_Witness ==
    /\ lastCheck # <<>>
    /\ lastCheck[1].ordinal = RATE_LIMIT + 1
    /\ ~lastCheck[1].ok

\* C35: a check of a client whose count is at the limit is allowed, and
\* starts a new window with count 1, when it is made more than RATE_WINDOW
\* seconds after the window's start; made at or before that it is denied and
\* leaves the record as it is.
C35_AllowedAfterExpiry ==
    [][\A c \in ClientIds :
          (/\ windows'[c] # windows[c]
           /\ clients[c] # <<>>
           /\ clients[c][1].count >= RATE_LIMIT)
          => IF now - clients[c][1].window_start >= RATE_WINDOW + 1
             THEN /\ lastCheck'[1].ok
                  /\ clients'[c] = <<RateLimit(1, now)>>
             ELSE /\ ~lastCheck'[1].ok
                  /\ clients'[c] = clients[c]]_vars

\* C36: the result of every check of a client, and the client's record, are
\* what they are in the run in which only that client's checks are made, at
\* the same instants; so two runs that agree on a client's checks agree on
\* their results, whatever the other clients do.
C36_OwnChecksOnly ==
    /\ \A c \in ClientIds : clients[c] = alone[c]
    /\ lastCheck # <<>> => lastCheck[1].ok = lastCheck[1].okAlone

\* Client a was denied after client b, starting with no record, had made a
\* check of its own.
C36_Witness ==
    /\ lastCheck # <<>>
    /\ lastCheck[1].client = "a"
    /\ ~lastCheck[1].ok
    /\ clients["b"] # <<>>
    /\ clients["b"][1].count = 1

\* A client at its limit made a check after its window had expired and was
\* allowed.
C35_Witness ==
    /\ lastCheck # <<>>
    /\ lastCheck[1].atLimit
    /\ lastCheck[1].ok
    /\ now = RATE_WINDOW + 1

(***************************************************************************)
(* create_ephemeral_token.  The function is called with a session_config,  *)
(* builds the payload, posts it, and returns the token of a 200 response   *)
(* or raises.  A session_config is a function from its keys to values.     *)
(***************************************************************************)
MaxKeys == 3

\* the list the payload is built from
supported_fields ==
    << "model", "modalities", "instructions", "voice",
       "input_audio_format", "output_audio_format",
       "input_audio_transcription", "turn_detection",
       "tools", "tool_choice", "temperature",
       "max_response_output_tokens" >>

\* Keys a client may put into session_config besides those
OtherKeys == {"Model", "api_key"}

ConfigKeys == {supported_fields[i] : i \in DOMAIN supported_fields} \cup OtherKeys

ConfigValues == {"v1", "v2"}

SessionConfigs ==
    UNION {[K -> ConfigValues] :
             K \in {S \in SUBSET ConfigKeys : Cardinality(S) <= MaxKeys}}

\* payload = {k: session_config[k] for k in [...] if k in session_config}
ephemeral_payload_unfiltered(cfg) == cfg

ephemeral_payload(cfg) ==
    [k \in {supported_fields[i] : i \in {j \in DOMAIN supported_fields :
                                          supported_fields[j] \in DOMAIN cfg}}
       |-> cfg[k]]

MintInit ==
    /\ session_config \in SessionConfigs
    /\ apiKeySet \in BOOLEAN
    /\ mintState = "called"
    /\ payload = <<>>
    /\ SessionIdle
    /\ FrontIdle
    /\ PoolIdle
    /\ LimitIdle
    /\ CliIdle
    /\ AuthIdle
    /\ MonIdle

\* if not openai_api_key: raise RuntimeError
MintNoKey ==
    /\ mintState = "called"
    /\ ~apiKeySet
    /\ mintState' = "failed"
    /\ UNCHANGED <<session_config, apiKeySet, payload>>
    /\ UNCHANGED <<sessVars, frontVars, poolVars, limitVars, cliVars,
                   authVars, monVars>>

\* resp = requests.post(url, headers=headers, json=payload)
MintPost ==
    /\ mintState = "called"
    /\ apiKeySet
    /\ payload' = <<ephemeral_payload(session_config)>>
    /\ mintState' = "posted"
    /\ UNCHANGED <<session_config, apiKeySet>>
    /\ UNCHANGED <<sessVars, frontVars, poolVars, limitVars, cliVars,
                   authVars, monVars>>

\* if resp.status_code != 200: raise; else return the token
MintResponse(ok) ==
    /\ mintState = "posted"
    /\ mintState' = IF ok THEN "minted" ELSE "failed"
    /\ UNCHANGED <<session_config, apiKeySet, payload>>
    /\ UNCHANGED <<sessVars, frontVars, poolVars, limitVars, cliVars,
                   authVars, monVars>>

MintNext ==
    \/ MintNoKey
    \/ MintPost
    \/ \E ok \in BOOLEAN : MintResponse(ok)

SpecMint == MintInit /\ [][MintNext]_vars

(***************************************************************************)
(* Properties of create_ephemeral_token, under SpecMint.                   *)
(***************************************************************************)

\* The twelve keys of the whitelist
WhitelistKeys ==
    { "model", "modalities", "instructions", "voice", "input_audio_format",
      "output_audio_format", "input_audio_transcription", "turn_detection",
      "tools", "tool_choice", "temperature", "max_response_output_tokens" }

\* C19: the payload posted for a session_config has exactly the keys of
\* session_config that are among the twelve of the whitelist, each with the
\* value session_config gives it, and no other key.
C19_PayloadIsWhitelisted ==
    payload # <<>> =>
        /\ DOMAIN payload[1] = DOMAIN session_config \cap WhitelistKeys
        /\ \A k \in DOMAIN payload[1] : payload[1][k] = session_config[k]

\* A payload was posted for a session_config with a whitelisted key and a
\* key outside the whitelist.
C19_Witness ==
    /\ payload # <<>>
    /\ DOMAIN session_config \cap WhitelistKeys # {}
    /\ DOMAIN session_config \ WhitelistKeys # {}

(***************************************************************************)
(* handle_server_events of the command-line clients cli.py and cli_v0.0.py:*)
(* the response state and the current response id are kept there.  The     *)
(* loop takes one server event at a time; what it does with it is one      *)
(* step (the waits inside the response.done branch of cli.py come after    *)
(* the state is set, and no other coroutine writes the state).             *)
(***************************************************************************)
MaxServerEvents == 4
MaxRespIds == 2

\* class ResponseState(Enum)
ResponseState == {"idle", "processing", "responding", "error"}

\* The ids upstream gives to responses
RespIds == 1 .. MaxRespIds

DeltaTypes ==
    {"response.text.delta", "response.audio_transcript.delta",
     "response.audio.delta"}

\* The deltas a client has a branch for: cli.py has none for the transcript
HandledDeltas(c) ==
    IF c = "cli" THEN {"response.text.delta", "response.audio.delta"}
                 ELSE DeltaTypes

\* The server events: type, for response.created and the deltas the response
\* id (None in a delta: the key response_id is missing), for an error
\* whether its code is a fatal one.
SrvEvent(t, id, fatal) == [type |-> t, id |-> id, fatal |-> fatal]

ServerEvents ==
    {SrvEvent(t, None, FALSE) :
        t \in {"session.created", "response.done",
               "input_audio_buffer.speech_started",
               "input_audio_buffer.speech_stopped"}}
    \cup {SrvEvent("error", None, f) : f \in BOOLEAN}
    \cup {SrvEvent("response.created", i, FALSE) : i \in RespIds}
    \cup {SrvEvent(t, i, FALSE) : t \in DeltaTypes, i \in RespIds \cup {None}}

\* if (STATE.response_state == ResponseState.RESPONDING and
\*     event["response_id"] == STATE.current_response_id)
DeltaAccepted_any_id(st, cur, id) == st = "responding"

DeltaAccepted(st, cur, id) == st = "responding" /\ id = cur

CliInit ==
    /\ cli \in {"cli", "cli_v0"}
    /\ response_state = "idle"
    /\ current_response_id = None
    /\ lastEvent = <<>>
    /\ eventsSeen = 0
    /\ actedCount = 0
    /\ errorsPrinted = 0
    /\ cancels = <<>>
    /\ SessionIdle
    /\ FrontIdle
    /\ PoolIdle
    /\ LimitIdle
    /\ MintIdle
    /\ AuthIdle
    /\ MonIdle

\* The branch of input_audio_buffer.speech_started: the state is set first;
\* cli.py then tests it for RESPONDING before it sends the cancel.
SpeechStarted ==
    LET st == "processing"
    IN  IF cli = "cli" /\ current_response_id # None /\ st = "responding"
        THEN /\ cancels' = Append(cancels, current_response_id)
             /\ current_response_id' = None
             /\ response_state' = "idle"
        ELSE /\ response_state' = st
             /\ UNCHANGED <<cancels, current_response_id>>

HandleServerEvent(e) ==
    /\ eventsSeen < MaxServerEvents
    /\ eventsSeen' = eventsSeen + 1
    /\ lastEvent' = <<e>>
    /\ CASE e.type = "error" ->
              /\ response_state' = "idle"
              /\ UNCHANGED <<current_response_id, actedCount, errorsPrinted,
                             cancels>>
         [] e.type = "response.created" ->
              /\ current_response_id' = e.id
              /\ response_state' = "responding"
              /\ UNCHANGED <<actedCount, errorsPrinted, cancels>>
         [] e.type \in HandledDeltas(cli) ->
              \* event["response_id"] is read only when the state is
              \* RESPONDING; a missing key raises KeyError, which the loop
              \* catches and prints
              /\ IF response_state = "responding" /\ e.id = None
                 THEN /\ errorsPrinted' = errorsPrinted + 1
                      /\ actedCount' = actedCount
                 ELSE /\ errorsPrinted' = errorsPrinted
                      /\ actedCount' =
                            IF DeltaAccepted(response_state,
                                             current_response_id, e.id)
                            THEN actedCount + 1 ELSE actedCount
              /\ UNCHANGED <<response_state, current_response_id, cancels>>
         [] e.type = "response.done" ->
              /\ IF response_state = "responding"
                 THEN /\ current_response_id' = None
                      /\ response_state' = "idle"
                 ELSE UNCHANGED <<current_response_id, response_state>>
              /\ UNCHANGED <<actedCount, errorsPrinted, cancels>>
         [] e.type = "input_audio_buffer.speech_started" ->
              /\ SpeechStarted
              /\ UNCHANGED <<actedCount, errorsPrinted>>
         [] OTHER ->
              UNCHANGED <<response_state, current_response_id, actedCount,
                          errorsPrinted, cancels>>
    /\ cli' = cli
    /\ UNCHANGED <<sessVars, frontVars, poolVars, limitVars, mintVars,
                   authVars, monVars>>

CliNext == \E e \in ServerEvents : HandleServerEvent(e)

SpecCli == CliInit /\ [][CliNext]_vars

(***************************************************************************)
(* Properties of the client's response state, under SpecCli.               *)
(***************************************************************************)

\* A delta is taken in this step
DeltaTaken == eventsSeen' > eventsSeen /\ lastEvent'[1].type \in DeltaTypes

C28_SpeechStartedCancels ==
    [][(/\ eventsSeen' > eventsSeen
        /\ lastEvent'[1].type = "input_audio_buffer.speech_started"
        /\ response_state = "responding")
       => (/\ cancels' = Append(cancels, current_response_id)
           /\ response_state' = "processing")]_vars

\* C29: the state leaves Responding only in a step that takes response.done
\* or an error with a fatal code, or that sends a response.cancel.
C29_LeavesRespondingOnlyBy ==
    [][(response_state = "responding" /\ response_state' # "responding")
       => (\/ lastEvent'[1].type = "response.done"
           \/ (lastEvent'[1].type = "error" /\ lastEvent'[1].fatal)
           \/ Len(cancels') > Len(cancels))]_vars

\* C39: the current response id is set only while the state is Responding:
\* in every other state it is None.
C39_IdOnlyWhileResponding ==
    response_state # "responding" => current_response_id = None

(***************************************************************************)
(* Authentication: AuthMiddleware.authenticate (auth/middleware.py), which *)
(* takes a bearer API key, and login with authenticate_user               *)
(* (realtime_relay_modal_app.py), which takes an email and a password.     *)
(* Two callers present one credential each against the same user store, so *)
(* that what two callers observe can be compared.                          *)
(***************************************************************************)
AuthCallers == {1, 2}

\* The API keys (and emails) that can be presented
ApiKeys == {"k1", "k2", "k3"}

Passwords == {"pw", "other"}

\* What the store holds for a key: no user, a user with is_active, or a
\* user whose is_active is False.  login looks only at whether there is a
\* user: its UserInDB has no is_active.
UserStates == {"none", "active", "disabled"}

\* Every stored user's password
StoredPassword == "pw"

\* pwd_context.hash and pwd_context.verify
hash(p) == <<"hashed", p>>

verify_password(plain_password, hashed_password) ==
    hash(plain_password) = hashed_password

\* HTTPAuthorizationCredentials or None, and the login form
Presented ==
    {[path |-> "api_key", id |-> k, secret |-> "none"] :
        k \in ApiKeys \cup {"missing"}}
    \cup {[path |-> "login", id |-> k, secret |-> p] :
            k \in ApiKeys, p \in Passwords}

HTTPException(status_code, detail) ==
    [status |-> status_code, detail |-> detail]

Returned(user) == [status |-> 200, detail |-> user]

\* AuthMiddleware.authenticate
authenticate(store, cr) ==
    IF cr.id = "missing"
    THEN HTTPException(401, "Missing authentication")
    ELSE IF store[cr.id] = "none"
    THEN HTTPException(401, "Invalid API key")
    ELSE IF store[cr.id] # "active"
    THEN HTTPException(403, "Account disabled")
    ELSE Returned(cr.id)

\* authenticate_user: None is False here
authenticate_user(store, email, password) ==
    IF store[email] = "none" \/ ~verify_password(password, hash(StoredPassword))
    THEN FALSE
    ELSE TRUE

\* login
login(store, cr) ==
    IF ~authenticate_user(store, cr.id, cr.secret)
    THEN HTTPException(401, "Incorrect email or password")
    ELSE Returned(cr.id)

AuthInit ==
    /\ users \in [ApiKeys -> UserStates]
    /\ presented = [c \in AuthCallers |-> <<>>]
    /\ authResult = [c \in AuthCallers |-> <<>>]
    /\ SessionIdle
    /\ FrontIdle
    /\ PoolIdle
    /\ LimitIdle
    /\ MintIdle
    /\ CliIdle
    /\ MonIdle

Authenticate(c, cr) ==
    /\ presented[c] = <<>>
    /\ cr.path = "api_key"
    /\ presented' = [presented EXCEPT ![c] = <<cr>>]
    /\ authResult' = [authResult EXCEPT ![c] = <<authenticate(users, cr)>>]
    /\ users' = users
    /\ UNCHANGED <<sessVars, frontVars, poolVars, limitVars, mintVars,
                   cliVars, monVars>>

Login(c, cr) ==
    /\ presented[c] = <<>>
    /\ cr.path = "login"
    /\ presented' = [presented EXCEPT ![c] = <<cr>>]
    /\ authResult' = [authResult EXCEPT ![c] = <<login(users, cr)>>]
    /\ users' = users
    /\ UNCHANGED <<sessVars, frontVars, poolVars, limitVars, mintVars,
                   cliVars, monVars>>

AuthNext ==
    \E c \in AuthCallers, cr \in Presented :
        \/ Authenticate(c, cr)
        \/ Login(c, cr)

SpecAuth == AuthInit /\ [][AuthNext]_vars

(***************************************************************************)
(* Properties of authentication, under SpecAuth.                           *)
(***************************************************************************)

\* Caller c was refused
Refused(c) == authResult[c] # <<>> /\ authResult[c][1].status # 200

\* C30: two callers whose credentials were both refused on the same path
\* observe the same result: same status, same message.
C30_FailuresIndistinguishable ==
    \A c1, c2 \in AuthCallers :
        (/\ Refused(c1)
         /\ Refused(c2)
         /\ presented[c1][1].path = presented[c2][1].path)
        => authResult[c1] = authResult[c2]

(***************************************************************************)
(* The process-wide state of realtime_relay_modal_app.py: the monitor's    *)
(* websocket_connections gauge, the ConnectionManager's list and the usage *)
(* counters, with several client connections in websocket_endpoint at the  *)
(* same time.  Each connection is followed only as far as these need: its  *)
(* accept, its frames in the endpoint's loop, the pumps of handle_client   *)
(* with the response.done events they send on, and the ways it ends.       *)
(***************************************************************************)
MaxConns == 2
MaxDone == 2
MaxTokens == 1

Conns == 1 .. MaxConns

\* The frames a client sends in the endpoint's loop: an init_session, another
\* JSON object, and JSON that is not an object (a list, a number, a string)
LoopFrames == {"init_session", "other", "not_object"}

\* The usage of a response.done event
Usages ==
    {[input_tokens |-> i, output_tokens |-> o, total_tokens |-> i + o] :
        i, o \in 0 .. MaxTokens}

\* ServiceMonitor.increment and ServiceMonitor.decrement on an int metric
increment(metric) == metric + 1

decrement(metric) == IF metric - 1 > 0 THEN metric - 1 ELSE 0

\* The connections accepted and not yet ended
Live == {c \in Conns : conns[c] \in {"loop", "pumps"}}

MonInit ==
    /\ conns = [c \in Conns |-> "new"]
    /\ websocket_connections = 0
    /\ active_connections = <<>>
    /\ token_usage = [total |-> 0, input |-> 0, output |-> 0]
    /\ usage_records = <<>>
    /\ delivered = [count |-> 0, input |-> 0, output |-> 0, total |-> 0]
    /\ lastDone = <<>>
    /\ SessionIdle
    /\ FrontIdle
    /\ PoolIdle
    /\ LimitIdle
    /\ MintIdle
    /\ CliIdle
    /\ AuthIdle

\* manager.connect(websocket), monitor.increment('websocket_connections')
\* and the acknowledgement
Connect(c) ==
    /\ conns[c] = "new"
    /\ conns' = [conns EXCEPT ![c] = "loop"]
    /\ active_connections' = Append(active_connections, c)
    /\ websocket_connections' = increment(websocket_connections)
    /\ UNCHANGED <<token_usage, usage_records, delivered, lastDone>>
    /\ UNCHANGED <<sessVars, frontVars, poolVars, limitVars, mintVars,
                   cliVars, authVars>>

\* The endpoint's loop takes a frame.  msg.get of a frame that is not an
\* object raises AttributeError, which only the outer `except Exception`
\* catches: it logs, and the finally clause ends the handler.
LoopFrame(c, kind, ok) ==
    /\ conns[c] = "loop"
    /\ conns' = [conns EXCEPT ![c] =
                    CASE kind = "not_object" -> "gone"
                      [] kind = "init_session" /\ ok -> "pumps"
                      [] OTHER -> "loop"]
    /\ UNCHANGED <<websocket_connections, active_connections, token_usage,
                   usage_records, delivered, lastDone>>
    /\ UNCHANGED <<sessVars, frontVars, poolVars, limitVars, mintVars,
                   cliVars, authVars>>

\* relay_upstream_to_local takes a response.done with usage u from upstream
\* and sends it on to the client as it came
ResponseDone(c, u) ==
    /\ conns[c] = "pumps"
    /\ delivered.count < MaxDone
    /\ delivered' = [count |-> delivered.count + 1,
                     input |-> delivered.input + u.input_tokens,
                     output |-> delivered.output + u.output_tokens,
                     total |-> delivered.total + u.total_tokens]
    /\ lastDone' = <<u>>
    /\ UNCHANGED <<conns, websocket_connections, active_connections,
                   token_usage, usage_records>>
    /\ UNCHANGED <<sessVars, frontVars, poolVars, limitVars, mintVars,
                   cliVars, authVars>>

\* A pump of handle_client raises or upstream ends: handle_client returns
\* and the endpoint's loop goes on
PumpsEnd(c) ==
    /\ conns[c] = "pumps"
    /\ conns' = [conns EXCEPT ![c] = "loop"]
    /\ UNCHANGED <<websocket_connections, active_connections, token_usage,
                   usage_records, delivered, lastDone>>
    /\ UNCHANGED <<sessVars, frontVars, poolVars, limitVars, mintVars,
                   cliVars, authVars>>

\* The client goes away while the loop waits in receive_text: the handler
\* for WebSocketDisconnect decrements the gauge.  manager.disconnect is
\* called nowhere.
Disconnect(c) ==
    /\ conns[c] = "loop"
    /\ conns' = [conns EXCEPT ![c] = "gone"]
    /\ websocket_connections' = decrement(websocket_connections)
    /\ UNCHANGED <<active_connections, token_usage, usage_records, delivered,
                   lastDone>>
    /\ UNCHANGED <<sessVars, frontVars, poolVars, limitVars, mintVars,
                   cliVars, authVars>>

MonNext ==
    \E c \in Conns :
        \/ Connect(c)
        \/ \E k \in LoopFrames, ok \in BOOLEAN : LoopFrame(c, k, ok)
        \/ \E u \in Usages : ResponseDone(c, u)
        \/ PumpsEnd(c)
        \/ Disconnect(c)

SpecMon == MonInit /\ [][MonNext]_vars

(***************************************************************************)
(* Properties of the process-wide state, under SpecMon.                    *)
(***************************************************************************)

\* C32: each response.done with usage u that is sent on adds u.input_tokens
\* and u.output_tokens to the usage counters, and the counters only grow.
C32_UsageRecorded ==
    [][/\ delivered'.count > delivered.count
          => /\ token_usage'.input =
                    token_usage.input + lastDone'[1].input_tokens
             /\ token_usage'.output =
                    token_usage.output + lastDone'[1].output_tokens
       /\ token_usage'.input >= token_usage.input
       /\ token_usage'.output >= token_usage.output]_vars

\* C40: the websocket_connections gauge is the number of connections that
\* were accepted and have not ended, and is never negative.
C40_GaugeCountsLive ==
    /\ websocket_connections = Cardinality(Live)
    /\ websocket_connections >= 0

====
